---- MODULE Spec2Model ----
(***************************************************************************)
(* Model of services/vr/virtual_touchpad/VirtualTouchpadEvdev.cpp: the     *)
(* virtual touchpad manager that turns normalized touch, button and scroll *)
(* calls into evdev primitives sent to one EvdevInjector per touchpad.     *)
(*                                                                         *)
(* A float is modelled as a record [nan, num]: num is the numerator of the *)
(* value on a fixed grid (1/CoordDen for Touch coordinates, 1/ScrollDen    *)
(* for Scroll deltas, 1/1 for pressure); nan marks an IEEE NaN, for which  *)
(* every ordered comparison is false.                                      *)
(***************************************************************************)
EXTENDS Integers, Sequences, FiniteSets, TLC

\* ---------------------------------------------------------------- constants
kWidth == 65536
kHeight == 65536
kSlots == 2
kTouchpads == 2
INT32_MIN == -2147483647 - 1
kScrollGain == 4

\* Grid resolution of the modelled floats: SubUnit grid points per device
\* cell for coordinates (1.0f is CoordDen), ScrollDen points per unit of
\* scroll delta (1.0f is ScrollDen).
SubUnit == 2
CoordDen == SubUnit * kWidth
ScrollDen == 8

OK == "OK"
EINVAL == "EINVAL"
ENOTSUP == "ENOTSUP"
ERROR_SEQUENCING == "ERROR_SEQUENCING"
\* An error code reported by the injector (opaque to the manager).
EIO == "EIO"
EBADF == "EBADF"

BTN_TOUCH == "BTN_TOUCH"
BTN_BACK == "BTN_BACK"
KEY_PRESS == "KEY_PRESS"
KEY_RELEASE == "KEY_RELEASE"
REL_HWHEEL == "REL_HWHEEL"
REL_WHEEL == "REL_WHEEL"

\* Button masks are modelled as the set of bits that are set.
AMOTION_EVENT_BUTTON_BACK == "BACK"
AMOTION_EVENT_BUTTON_PRIMARY == "PRIMARY"

\* The values of touchpad.injector: none, the EvdevInjector the manager
\* created and owns, or one supplied from outside (a test double).
nullptr == "nullptr"
owned == "owned"
external == "external"

\* ------------------------------------------------------------------- floats
Float(n) == [nan |-> FALSE, num |-> n]
NaN == [nan |-> TRUE, num |-> 0]

FLt(a, n) == ~a.nan /\ a.num < n
FGt(a, n) == ~a.nan /\ a.num > n
FGe(a, n) == ~a.nan /\ a.num >= n

Abs(n) == IF n < 0 THEN -n ELSE n
Trunc(a, b) == IF a >= 0 THEN a \div b ELSE -((-a) \div b)
Ceil(a, b) == -((-a) \div b)

\* What a float-to-int32 conversion of a NaN can produce (undefined
\* behaviour: 0x80000000 on x86, 0 on ARM).
NaNToInt32 == {INT32_MIN, 0}

RECURSIVE GCD(_, _)
GCD(a, b) == IF b = 0 THEN a ELSE GCD(b, a % b)

\* int32_t device = f * scale, f on the 1/CoordDen grid: the product
\* f.num * scale / CoordDen (in lowest terms), truncated toward zero.
Unscaled(f, scale) ==
  IF f.nan THEN NaNToInt32 ELSE {Trunc(f.num, CoordDen)}
ToDevice(f, scale) ==
  IF f.nan THEN NaNToInt32
  ELSE LET g == GCD(scale, CoordDen)
       IN {Trunc(f.num * (scale \div g), CoordDen \div g)}

\* -------------------------------------------------------------------- state
VARIABLES
  touchpad_,   \* the Touchpad records, one per touchpad index
  device,      \* per touchpad: key state held by the injector it points to
  call,        \* the operation that ran last, with its arguments
  ret,         \* what it returned
  injcalls     \* per touchpad: the injector methods it called, in order

vars == <<touchpad_, device, call, ret, injcalls>>

Ids == 0 .. (kTouchpads - 1)

NoCalls == [i \in Ids |-> <<>>]

\* ---------------------------------------------------------- injector calls
ResetError == [f |-> "ResetError"]
GetError(e) == [f |-> "GetError", returns |-> e]
Close == [f |-> "Close"]
SendMultiTouchXY(slot, id, x, y) ==
  [f |-> "SendMultiTouchXY", slot |-> slot, id |-> id, x |-> x, y |-> y]
SendMultiTouchLift(slot) == [f |-> "SendMultiTouchLift", slot |-> slot]
SendKey(code, value) == [f |-> "SendKey", code |-> code, value |-> value]
SendRel(axis, delta) == [f |-> "SendRel", axis |-> axis, delta |-> delta]
SendSynReport == [f |-> "SendSynReport"]

ConfigureCalls(i) ==
  << [f |-> "ConfigureBegin", index |-> i],
     [f |-> "ConfigureInputProperty"],
     [f |-> "ConfigureMultiTouchXY", x0 |-> 0, y0 |-> 0,
      x1 |-> kWidth - 1, y1 |-> kHeight - 1],
     [f |-> "ConfigureAbsSlots", slots |-> kSlots],
     [f |-> "ConfigureKey", code |-> BTN_TOUCH],
     [f |-> "ConfigureKey", code |-> BTN_BACK],
     [f |-> "ConfigureEnd"] >>

EventNames ==
  {"SendMultiTouchXY", "SendMultiTouchLift", "SendKey", "SendRel",
   "SendSynReport"}
IsEvent(c) == c.f \in EventNames

\* The event primitives among a sequence of injector calls.
Events(cs) == SelectSeq(cs, IsEvent)

\* The injector's key state after it received the events es.
RECURSIVE KeyAfter(_, _, _)
KeyAfter(down, code, es) ==
  IF es = <<>> THEN down
  ELSE LET e == Head(es) IN
       KeyAfter(IF e.f = "SendKey" /\ e.code = code
                THEN e.value = KEY_PRESS ELSE down,
                code, Tail(es))

DeviceAfter(d, es) ==
  [btn_touch |-> KeyAfter(d.btn_touch, BTN_TOUCH, es),
   btn_back |-> KeyAfter(d.btn_back, BTN_BACK, es)]

\* A new injector: no key pressed.
NewDevice == [btn_touch |-> FALSE, btn_back |-> FALSE]

\* The errors an injector can report: none, or a device-emission failure.
InjectorErrors == {OK, EIO}

\* The errors an injector can report after its configuration.
ConfigureErrors == {OK, EIO, EBADF}

\* The last non-zero status of a sequence of statuses, e if there is none.
RECURSIVE FirstError(_, _)
FirstError(e, errs) ==
  IF errs = <<>> THEN e
  ELSE IF Head(errs) # OK THEN Head(errs) ELSE FirstError(e, Tail(errs))
RECURSIVE LastError(_, _)
LastError(e, errs) ==
  IF errs = <<>> THEN e
  ELSE LastError(IF Head(errs) # OK THEN Head(errs) ELSE e, Tail(errs))

\* What GetError can return after ResetError followed by the sends es:
\* no error if nothing was sent, else whatever the sends reported.
GetErrorAfter(es) == IF es = <<>> THEN {OK} ELSE InjectorErrors

\* if (!touchpad.injector) return EvdevInjector::ERROR_SEQUENCING;
MissingCheck(tp) == TRUE
HasInjector(tp) == tp.injector # nullptr

\* ------------------------------------------------------------------- Reset
ResetTouchpad ==
  [injector |-> nullptr, last_device_x |-> INT32_MIN,
   last_device_y |-> INT32_MIN, touches |-> 0,
   last_motion_event_buttons |-> {}]

ResetKeepsInjector ==
  /\ touchpad_' = [i \in Ids |->
                     [ResetTouchpad EXCEPT !.injector = touchpad_[i].injector]]
  /\ device' = device
  /\ injcalls' = [i \in Ids |->
                    IF touchpad_[i].injector # nullptr THEN <<Close>>
                    ELSE <<>>]
Reset ==
  /\ touchpad_' = [i \in Ids |-> ResetTouchpad]
  /\ device' = [i \in Ids |-> NewDevice]
  /\ injcalls' = [i \in Ids |->
                    IF touchpad_[i].injector # nullptr THEN <<Close>>
                    ELSE <<>>]

Init ==
  /\ touchpad_ = [i \in Ids |-> ResetTouchpad]
  /\ device = [i \in Ids |-> NewDevice]
  /\ call = [op |-> "Create"]
  /\ ret = OK
  /\ injcalls = NoCalls

\* ------------------------------------------------------------------ Attach
\* The injector of a touchpad after Attach: a new owned one if it had none.
AlwaysNew(injector) == owned
AttachInjector(injector) == IF injector = nullptr THEN owned ELSE injector

Attach ==
  \E status \in [Ids -> ConfigureErrors] :
    /\ call' = [op |-> "Attach"]
    /\ touchpad_' = [i \in Ids |->
                       [touchpad_[i] EXCEPT !.injector = AttachInjector(@)]]
    /\ device' = [i \in Ids |->
                    IF touchpad_[i].injector = nullptr THEN NewDevice
                    ELSE device[i]]
    /\ injcalls' = [i \in Ids |->
                      Append(ConfigureCalls(i), GetError(status[i]))]
    /\ ret' = LastError(OK, [k \in 1 .. kTouchpads |-> status[k - 1]])

\* ------------------------------------------------------------------ Detach
Detach ==
  /\ call' = [op |-> "Detach"]
  /\ Reset
  /\ ret' = OK

\* ------------------------------------------------------------------- Touch
\* touchpad.touches = ((touchpad.touches & 1) << 1) | (pressure > 0)
MasksHighBit(touches, pressure) ==
  ((touches \div 2) * 2) + (IF FGt(pressure, 0) THEN 1 ELSE 0)
NextTouches(touches, pressure) ==
  ((touches % 2) * 2) + (IF FGt(pressure, 0) THEN 1 ELSE 0)

\* Cases 0b00 and 0b11: a position update unless the position is the last
\* one.
AlwaysUpdate(device_x, device_y, last_x, last_y) ==
  <<SendMultiTouchXY(0, 0, device_x, device_y), SendSynReport>>
PositionUpdate(device_x, device_y, last_x, last_y) ==
  IF device_x # last_x \/ device_y # last_y
  THEN <<SendMultiTouchXY(0, 0, device_x, device_y), SendSynReport>>
  ELSE <<>>

\* Case 0b01: touch begins.
PressThenPosition(device_x, device_y) ==
  <<SendKey(BTN_TOUCH, KEY_PRESS),
    SendMultiTouchXY(0, 0, device_x, device_y), SendSynReport>>
TouchBegins(device_x, device_y) ==
  <<SendMultiTouchXY(0, 0, device_x, device_y),
    SendKey(BTN_TOUCH, KEY_PRESS), SendSynReport>>

\* Case 0b10: touch ends.
LiftWithoutBarrier(device_x, device_y) ==
  <<SendKey(BTN_TOUCH, KEY_RELEASE), SendMultiTouchLift(0)>>
ReleaseAtPosition(device_x, device_y) ==
  <<SendMultiTouchXY(0, 0, device_x, device_y),
    SendKey(BTN_TOUCH, KEY_RELEASE), SendMultiTouchLift(0), SendSynReport>>
TouchEnds(device_x, device_y) ==
  <<SendKey(BTN_TOUCH, KEY_RELEASE), SendMultiTouchLift(0), SendSynReport>>

\* The switch on touchpad.touches: the primitives sent, in order.
TouchEvents(touches, device_x, device_y, last_x, last_y) ==
  CASE touches = 0 -> PositionUpdate(device_x, device_y, last_x, last_y)
    [] touches = 1 -> TouchBegins(device_x, device_y)
    [] touches = 2 -> TouchEnds(device_x, device_y)
    [] touches = 3 -> PositionUpdate(device_x, device_y, last_x, last_y)

\* An operation that returns without changing anything.
Return(c, e) ==
  /\ call' = c
  /\ ret' = e
  /\ injcalls' = NoCalls
  /\ UNCHANGED <<touchpad_, device>>

\* An operation on touchpad id that resets the injector's error, sends the
\* events es, leaves the touchpad as tp and returns the injector's error.
Send(c, id, tp, es) ==
  \E e \in GetErrorAfter(es) :
    /\ call' = c
    /\ touchpad_' = [touchpad_ EXCEPT ![id] = tp]
    /\ device' = [device EXCEPT ![id] = DeviceAfter(@, es)]
    /\ injcalls' = [NoCalls EXCEPT ![id] =
                      <<ResetError>> \o es \o <<GetError(e)>>]
    /\ ret' = e

\* The touchpad after a Touch that reached its injector: the new history
\* and, in every case, the new last position.
KeepsPositionOnRelease(old, touches, device_x, device_y) ==
  IF touches = 2 THEN [old EXCEPT !.touches = touches]
  ELSE [old EXCEPT !.touches = touches,
                   !.last_device_x = device_x,
                   !.last_device_y = device_y]
Touched(old, touches, device_x, device_y) ==
  [old EXCEPT !.touches = touches,
              !.last_device_x = device_x,
              !.last_device_y = device_y]

Touch(touchpad_id, x, y, pressure) ==
  LET c == [op |-> "Touch", touchpad_id |-> touchpad_id, x |-> x, y |-> y,
            pressure |-> pressure]
  IN
  IF touchpad_id < 0 \/ touchpad_id >= kTouchpads THEN Return(c, EINVAL)
  ELSE IF FLt(x, 0) \/ FGe(x, CoordDen) \/ FLt(y, 0) \/ FGe(y, CoordDen)
  THEN Return(c, EINVAL)
  ELSE
    \E device_x \in ToDevice(x, kWidth), device_y \in ToDevice(y, kHeight) :
      LET old == touchpad_[touchpad_id]
          touches == NextTouches(old.touches, pressure)
      IN
      IF ~HasInjector(old)
      THEN /\ call' = c
           /\ touchpad_' = [touchpad_ EXCEPT ![touchpad_id].touches = touches]
           /\ ret' = ERROR_SEQUENCING
           /\ injcalls' = NoCalls
           /\ UNCHANGED device
      ELSE Send(c, touchpad_id,
                Touched(old, touches, device_x, device_y),
                TouchEvents(touches, device_x, device_y,
                            old.last_device_x, old.last_device_y))

\* ------------------------------------------------------------- ButtonState
\* changes = last_motion_event_buttons ^ buttons
Changes(last, buttons) == (last \ buttons) \cup (buttons \ last)

\* The back-button events sent for a change of the mask.
AlwaysPress(changes, buttons) ==
  IF AMOTION_EVENT_BUTTON_BACK \in changes
  THEN <<SendKey(BTN_BACK, KEY_PRESS), SendSynReport>>
  ELSE <<>>
ButtonEvents(changes, buttons) ==
  IF AMOTION_EVENT_BUTTON_BACK \in changes
  THEN <<SendKey(BTN_BACK,
                 IF AMOTION_EVENT_BUTTON_BACK \in buttons
                 THEN KEY_PRESS ELSE KEY_RELEASE),
         SendSynReport>>
  ELSE <<>>

\* buttons & ~AMOTION_EVENT_BUTTON_BACK
IgnoresPrimary(buttons) ==
  buttons \ {AMOTION_EVENT_BUTTON_BACK, AMOTION_EVENT_BUTTON_PRIMARY}
Unsupported(buttons) == buttons \ {AMOTION_EVENT_BUTTON_BACK}

ButtonState(touchpad_id, buttons) ==
  LET c == [op |-> "ButtonState", touchpad_id |-> touchpad_id,
            buttons |-> buttons]
  IN
  IF touchpad_id < 0 \/ touchpad_id >= kTouchpads THEN Return(c, EINVAL)
  ELSE
    LET old == touchpad_[touchpad_id]
        changes == Changes(old.last_motion_event_buttons, buttons)
    IN
    IF changes = {} THEN Return(c, OK)
    ELSE IF Unsupported(buttons) # {} THEN Return(c, ENOTSUP)
    ELSE IF ~HasInjector(old) THEN Return(c, ERROR_SEQUENCING)
    ELSE Send(c, touchpad_id,
              [old EXCEPT !.last_motion_event_buttons = buttons],
              ButtonEvents(changes, buttons))

\* ------------------------------------------------------------------ Scroll
\* copysignf(ceilf(fabs(4.0f * x)), x) converted to int32_t, x on the
\* 1/ScrollDen grid.
TruncatingScroll(x) ==
  IF x.nan THEN NaNToInt32
  ELSE {Trunc(kScrollGain * x.num, ScrollDen)}
scale_relative_scroll(x) ==
  IF x.nan THEN NaNToInt32
  ELSE LET magnitude == Ceil(Abs(kScrollGain * x.num), ScrollDen)
       IN {IF x.num < 0 THEN -magnitude ELSE magnitude}

\* The relative-axis events sent for the scaled deltas.
BarrierAlways(scaled_x, scaled_y) ==
  (IF scaled_x # 0 THEN <<SendRel(REL_HWHEEL, scaled_x)>> ELSE <<>>)
  \o (IF scaled_y # 0 THEN <<SendRel(REL_WHEEL, scaled_y)>> ELSE <<>>)
  \o <<SendSynReport>>
ScrollEvents(scaled_x, scaled_y) ==
  (IF scaled_x # 0 THEN <<SendRel(REL_HWHEEL, scaled_x)>> ELSE <<>>)
  \o (IF scaled_y # 0 THEN <<SendRel(REL_WHEEL, scaled_y)>> ELSE <<>>)
  \o (IF scaled_x # 0 \/ scaled_y # 0 THEN <<SendSynReport>> ELSE <<>>)

Scroll(touchpad_id, x, y) ==
  LET c == [op |-> "Scroll", touchpad_id |-> touchpad_id, x |-> x, y |-> y]
  IN
  IF touchpad_id < 0 \/ touchpad_id >= kTouchpads THEN Return(c, EINVAL)
  ELSE IF FLt(x, -ScrollDen) \/ FGt(x, ScrollDen)
          \/ FLt(y, -ScrollDen) \/ FGt(y, ScrollDen)
  THEN Return(c, EINVAL)
  ELSE IF ~HasInjector(touchpad_[touchpad_id])
  THEN Return(c, ERROR_SEQUENCING)
  ELSE \E scaled_x \in scale_relative_scroll(x),
          scaled_y \in scale_relative_scroll(y) :
         Send(c, touchpad_id, touchpad_[touchpad_id],
              ScrollEvents(scaled_x, scaled_y))

\* -------------------------------------------------------------- input sets
\* Touchpad indices: the valid ones and one invalid on either side.
TouchpadIds == -1 .. kTouchpads

\* Pressures: negative, zero and positive.
PressureValues == {Float(-1), Float(0), Float(1)}

\* Normalized (x, y): two points in one device cell, one that differs in x
\* only, one that differs in y only, and two out of range.
TouchPoints ==
  {<<Float(0), Float(0)>>, <<Float(1), Float(1)>>,
   <<Float(CoordDen - 1), Float(0)>>, <<Float(0), Float(CoordDen - 1)>>,
   <<Float(-1), Float(0)>>, <<Float(0), Float(CoordDen)>>}

\* A smaller set for the specification of all operations together.
CoreTouchPoints ==
  {<<Float(0), Float(0)>>, <<Float(CoordDen - 1), Float(0)>>,
   <<Float(CoordDen), Float(0)>>}
CorePressureValues == {Float(0), Float(1)}

ButtonMasks == SUBSET {AMOTION_EVENT_BUTTON_BACK, AMOTION_EVENT_BUTTON_PRIMARY}

\* Scroll deltas: the range ends, the smallest steps, an inner value, one
\* value beyond each end and a NaN.
ScrollValues ==
  {Float(-ScrollDen - 1), Float(-ScrollDen), Float(-1), Float(0), Float(1),
   Float(3), Float(ScrollDen), Float(ScrollDen + 1), NaN}
CoreScrollDeltas ==
  {<<Float(0), Float(0)>>, <<Float(1), Float(0)>>,
   <<Float(0), Float(-ScrollDen)>>, <<Float(ScrollDen + 1), Float(0)>>}

\* ---------------------------------------------------------- specifications
TouchCalls ==
  \E i \in TouchpadIds, pt \in CoreTouchPoints, p \in CorePressureValues :
    Touch(i, pt[1], pt[2], p)
ButtonStateCalls ==
  \E i \in TouchpadIds, b \in ButtonMasks : ButtonState(i, b)
ScrollCalls ==
  \E i \in TouchpadIds, d \in CoreScrollDeltas : Scroll(i, d[1], d[2])

\* All operations, over the smaller input sets.
Next == Attach \/ Detach \/ TouchCalls \/ ButtonStateCalls \/ ScrollCalls

Spec == Init /\ [][Next]_vars

\* The lifecycle and Touch, over the larger set of points and pressures.
AllTouchCalls ==
  \E i \in TouchpadIds, pt \in TouchPoints, p \in PressureValues :
    Touch(i, pt[1], pt[2], p)

NextTouch == Attach \/ Detach \/ AllTouchCalls

SpecTouch == Init /\ [][NextTouch]_vars

\* The lifecycle and Scroll, over every pair of deltas.
AllScrollCalls ==
  \E i \in TouchpadIds, x \in ScrollValues, y \in ScrollValues :
    Scroll(i, x, y)

NextScroll == Attach \/ Detach \/ AllScrollCalls

SpecScroll == Init /\ [][NextScroll]_vars

\* ------------------------------------------- externally supplied injectors
\* SetEvdevInjectorForTesting: hands touchpad i an injector the manager does
\* not own; to be called only while the touchpad has none (after creation
\* or Detach, before Attach).
SetEvdevInjectorForTesting(touchpad_id) ==
  /\ touchpad_[touchpad_id].injector = nullptr
  /\ call' = [op |-> "SetEvdevInjectorForTesting",
              touchpad_id |-> touchpad_id]
  /\ touchpad_' = [touchpad_ EXCEPT ![touchpad_id].injector = external]
  /\ device' = [device EXCEPT ![touchpad_id] = NewDevice]
  /\ ret' = OK
  /\ injcalls' = NoCalls

SetInjectorCalls == \E i \in Ids : SetEvdevInjectorForTesting(i)

\* Touch and ButtonState on the existing touchpads, at one position.
InjectTouchCalls ==
  \E i \in Ids, p \in CorePressureValues : Touch(i, Float(0), Float(0), p)
InjectButtonCalls ==
  \E i \in Ids, b \in SUBSET {AMOTION_EVENT_BUTTON_BACK} : ButtonState(i, b)

\* The lifecycle with owned and externally supplied injectors.
NextInject ==
  Attach \/ Detach \/ SetInjectorCalls \/ InjectTouchCalls
    \/ InjectButtonCalls

SpecInject == Init /\ [][NextInject]_vars

\* ------------------------------------------------ arguments at the limits
\* Normalized (x, y) at and beyond the ends of [0, 1), and NaN.
EdgeTouchPoints ==
  {<<Float(0), Float(0)>>, <<Float(CoordDen - 1), Float(CoordDen - 1)>>,
   <<Float(-1), Float(0)>>, <<Float(CoordDen), Float(0)>>,
   <<Float(0), Float(-1)>>, <<Float(0), Float(CoordDen)>>,
   <<NaN, Float(0)>>}

\* Scroll deltas at and beyond the ends of [-1, 1], and NaN.
EdgeScrollDeltas ==
  {<<Float(ScrollDen), Float(-ScrollDen)>>,
   <<Float(ScrollDen + 1), Float(0)>>, <<Float(-ScrollDen - 1), Float(0)>>,
   <<Float(0), Float(ScrollDen + 1)>>, <<Float(0), Float(-ScrollDen - 1)>>,
   <<NaN, Float(0)>>, <<Float(0), NaN>>}

EdgeButtonMasks == {{}, {AMOTION_EVENT_BUTTON_PRIMARY}}

EdgeTouchCalls ==
  \E i \in TouchpadIds, pt \in EdgeTouchPoints, p \in CorePressureValues :
    Touch(i, pt[1], pt[2], p)
EdgeButtonStateCalls ==
  \E i \in TouchpadIds, b \in EdgeButtonMasks : ButtonState(i, b)
EdgeScrollCalls ==
  \E i \in TouchpadIds, d \in EdgeScrollDeltas : Scroll(i, d[1], d[2])

\* All event operations over the arguments at the limits.
NextEdge ==
  Attach \/ Detach \/ EdgeTouchCalls \/ EdgeButtonStateCalls
    \/ EdgeScrollCalls

SpecEdge == Init /\ [][NextEdge]_vars

\* ------------------------------------------------------ notions of the claims
IsEventOp == call.op \in {"Touch", "ButtonState", "Scroll"}

\* The last operation named a touchpad that exists.
ValidId == IsEventOp /\ call.touchpad_id \in Ids

\* A Touch coordinate in [0, 1), a Scroll delta in [-1, 1].
InUnitRange(f) == ~f.nan /\ 0 <= f.num /\ f.num < CoordDen
InScrollRange(f) == ~f.nan /\ -ScrollDen <= f.num /\ f.num <= ScrollDen

\* The arguments of the last operation pass its validation.
ValidArgs ==
  /\ ValidId
  /\ call.op = "Touch" => InUnitRange(call.x) /\ InUnitRange(call.y)
  /\ call.op = "Scroll" => InScrollRange(call.x) /\ InScrollRange(call.y)

\* The event primitives the last operation sent to touchpad i's injector.
Sent(i) == Events(injcalls[i])
TouchKeySent(i, value) ==
  \E k \in 1 .. Len(injcalls[i]) : injcalls[i][k] = SendKey(BTN_TOUCH, value)

\* ------------------------------------------------------------------------ C1
\* C1: on the events sent to any one touchpad's injector, primary-touch-key
\* events alternate starting with a press: a press is sent only while the
\* injector holds the key released, a release only while it holds it pressed.
C1_TouchKeyAlternates ==
  [][\A i \in Ids :
       /\ TouchKeySent(i, KEY_PRESS)' => ~device[i].btn_touch
       /\ TouchKeySent(i, KEY_RELEASE)' => device[i].btn_touch]_vars

MaskChangesBack ==
  call.op = "ButtonState" =>
    /\ call.buttons \subseteq {AMOTION_EVENT_BUTTON_BACK}
    /\ call.buttons # touchpad_[call.touchpad_id].last_motion_event_buttons

C3_AttachResets ==
  call.op = "Attach" =>
    \A i \in Ids :
      /\ touchpad_[i].last_device_x = INT32_MIN
      /\ touchpad_[i].last_device_y = INT32_MIN
      /\ touchpad_[i].touches = 0
      /\ touchpad_[i].last_motion_event_buttons = {}

\* ------------------------------------------------------------- Touch claims
\* Whether a pressure counts as contact.
Contact(p) == ~p.nan /\ p.num > 0

\* Device coordinate d is the cell of normalized f: d <= f * kWidth < d + 1.
InCell(d, f) ==
  /\ 0 <= d /\ d < kWidth
  /\ d * SubUnit <= f.num /\ f.num < (d + 1) * SubUnit

\* This step is a Touch on touchpad i, which has an injector, with
\* coordinates in [0, 1).
TouchStep(i) ==
  /\ call'.op = "Touch" /\ call'.touchpad_id = i
  /\ InUnitRange(call'.x) /\ InUnitRange(call'.y)
  /\ touchpad_[i].injector # nullptr

\* es is one position update for slot 0 at the cell of the call's
\* coordinates.
IsPositionOfCall(e) ==
  /\ e.f = "SendMultiTouchXY" /\ e.slot = 0
  /\ InCell(e.x, call'.x) /\ InCell(e.y, call'.y)

\* C4: a Touch with pressure > 0 on an attached touchpad whose previous
\* contact sample was no-contact sends exactly: the position update, the
\* press of the primary touch key, the synchronization barrier.
C4_TouchBegins ==
  [][\A i \in Ids :
       (TouchStep(i) /\ touchpad_[i].touches % 2 = 0
          /\ Contact(call'.pressure))
         => LET es == Events(injcalls'[i]) IN
            /\ touchpad_'[i].touches = 1
            /\ Len(es) = 3
            /\ IsPositionOfCall(es[1])
            /\ es[2] = SendKey(BTN_TOUCH, KEY_PRESS)
            /\ es[3] = SendSynReport]_vars

\* A contact began on an attached touchpad: three primitives, press second.
C4_Witness ==
  /\ call.op = "Touch" /\ ValidArgs
  /\ touchpad_[call.touchpad_id].injector # nullptr
  /\ touchpad_[call.touchpad_id].touches = 1
  /\ Len(Sent(call.touchpad_id)) = 3
  /\ Sent(call.touchpad_id)[2] = SendKey(BTN_TOUCH, KEY_PRESS)

\* C5: a Touch with pressure <= 0 on an attached touchpad whose previous
\* contact sample was contact sends exactly: the release of the primary
\* touch key, the lift of slot 0, the synchronization barrier, and no
\* position update.
C5_TouchEnds ==
  [][\A i \in Ids :
       (TouchStep(i) /\ touchpad_[i].touches % 2 = 1
          /\ ~Contact(call'.pressure))
         => /\ touchpad_'[i].touches = 2
            /\ Events(injcalls'[i])
                 = <<SendKey(BTN_TOUCH, KEY_RELEASE), SendMultiTouchLift(0),
                     SendSynReport>>]_vars

\* A contact ended, on a negative pressure, at a new position.
C5_Witness ==
  /\ call.op = "Touch" /\ ValidArgs
  /\ call.pressure.num < 0
  /\ touchpad_[call.touchpad_id].injector # nullptr
  /\ touchpad_[call.touchpad_id].touches = 2
  /\ device[call.touchpad_id].btn_touch = FALSE
  /\ Len(Sent(call.touchpad_id)) = 3

ButtonStep(i) == call'.op = "ButtonState" /\ call'.touchpad_id = i

HasBack(mask) == AMOTION_EVENT_BUTTON_BACK \in mask

\* C7: in every reachable state, ButtonState with a mask that has a bit
\* other than the back button fails with not-supported, calls no injector
\* method and changes no touchpad; such a mask never equals the last
\* reported mask, so the no-change return is not taken for it.
C7_UnsupportedMask ==
  [][\A i \in Ids :
       (ButtonStep(i) /\ call'.buttons \ {AMOTION_EVENT_BUTTON_BACK} # {})
         => /\ ret' = ENOTSUP
            /\ injcalls' = NoCalls
            /\ touchpad_' = touchpad_
            /\ device' = device
            /\ call'.buttons # touchpad_[i].last_motion_event_buttons]_vars

\* A mask with the back bit and another bit was refused on an attached
\* touchpad whose back button is held.
C7_Witness ==
  /\ call.op = "ButtonState" /\ ValidId
  /\ call.buttons
       = {AMOTION_EVENT_BUTTON_BACK, AMOTION_EVENT_BUTTON_PRIMARY}
  /\ touchpad_[call.touchpad_id].injector # nullptr
  /\ touchpad_[call.touchpad_id].last_motion_event_buttons
       = {AMOTION_EVENT_BUTTON_BACK}
  /\ ret = ENOTSUP
  /\ injcalls = NoCalls

\* What C8 says ButtonState does on touchpad i for the masks it covers.
BackKeyBehaviour(i) ==
  LET last == touchpad_[i].last_motion_event_buttons
      es == Events(injcalls'[i])
  IN
  /\ HasBack(call'.buttons) # HasBack(last)
       => /\ es = <<SendKey(BTN_BACK,
                             IF HasBack(call'.buttons)
                             THEN KEY_PRESS ELSE KEY_RELEASE),
                     SendSynReport>>
          /\ touchpad_'[i].last_motion_event_buttons = call'.buttons
          /\ device[i].btn_back = ~HasBack(call'.buttons)
  /\ HasBack(call'.buttons) = HasBack(last) => es = <<>>
  /\ call'.buttons = last => (es = <<>> /\ ret' = OK)

\* C8 as stated: for an attached touchpad and any mask, ButtonState sends a
\* back-key event exactly when the back bit differs from the last mask.
C8_AnyMask ==
  [][\A i \in Ids :
       (ButtonStep(i) /\ touchpad_[i].injector # nullptr)
         => BackKeyBehaviour(i)]_vars

\* C8 (amended): for an attached touchpad and a mask with no bit other than
\* back, ButtonState sends a back-key event exactly when the back bit differs
\* from the last reported mask: a press if now set, a release if now
\* cleared, then one barrier, and the last mask becomes the new mask; with
\* the mask equal to the last one nothing is sent and success is returned.
\* A press is sent only while the injector holds the back key released, a
\* release only while it holds it pressed.
C8_RecognizedMask ==
  [][\A i \in Ids :
       (ButtonStep(i) /\ touchpad_[i].injector # nullptr
          /\ call'.buttons \subseteq {AMOTION_EVENT_BUTTON_BACK})
         => BackKeyBehaviour(i)]_vars

\* The back button was released after having been pressed.
C8_Witness ==
  /\ call.op = "ButtonState" /\ ValidId
  /\ call.buttons = {}
  /\ Sent(call.touchpad_id)
       = <<SendKey(BTN_BACK, KEY_RELEASE), SendSynReport>>
  /\ touchpad_[call.touchpad_id].last_motion_event_buttons = {}

\* ------------------------------------------------------------ Scroll claims
Sign(n) == IF n > 0 THEN 1 ELSE IF n < 0 THEN -1 ELSE 0

\* sign(d) * ceil(4 * |d|): the ceiling is the least integer k >= 4 * |d|.
Quantized(d) ==
  Sign(d.num) *
    (CHOOSE k \in 0 .. kScrollGain :
       /\ k * ScrollDen >= kScrollGain * Abs(d.num)
       /\ \A j \in 0 .. kScrollGain :
            j * ScrollDen >= kScrollGain * Abs(d.num) => k <= j)

\* The last operation was a Scroll on an attached touchpad with both deltas
\* in [-1, 1].
ScrollDone ==
  /\ call.op = "Scroll" /\ ValidArgs
  /\ touchpad_[call.touchpad_id].injector # nullptr

\* The kind of each event of es: the axis of a relative event, else the
\* primitive's name.
Shape(es) ==
  [k \in 1 .. Len(es) |->
     IF es[k].f = "SendRel" THEN es[k].axis ELSE es[k].f]

\* C9: for an attached touchpad and deltas in [-1, 1], Scroll sends one
\* relative event per axis whose quantized delta is nonzero, horizontal
\* first, then one barrier if any was sent; when both quantize to zero it
\* sends nothing and returns success.
C9_ScrollSequence ==
  ScrollDone =>
    LET qx == Quantized(call.x)
        qy == Quantized(call.y)
    IN
    /\ Shape(Sent(call.touchpad_id))
         = (IF qx # 0 THEN <<REL_HWHEEL>> ELSE <<>>)
           \o (IF qy # 0 THEN <<REL_WHEEL>> ELSE <<>>)
           \o (IF qx # 0 \/ qy # 0 THEN <<"SendSynReport">> ELSE <<>>)
    /\ (qx = 0 /\ qy = 0) => ret = OK

\* A Scroll on both axes: horizontal event, vertical event, barrier.
C9_Witness ==
  /\ ScrollDone
  /\ Shape(Sent(call.touchpad_id))
       = <<REL_HWHEEL, REL_WHEEL, "SendSynReport">>

\* The deltas of the relative events sent on an axis by the last operation.
DeltasSent(axis) ==
  LET es == Sent(call.touchpad_id) IN
  {es[k].delta : k \in {j \in 1 .. Len(es) :
                          es[j].f = "SendRel" /\ es[j].axis = axis}}

\* C10 for one axis with input d.
QuantizedAxis(axis, d) ==
  IF d.num = 0 THEN DeltasSent(axis) = {}
  ELSE /\ DeltasSent(axis) = {Quantized(d)}
       /\ \A v \in DeltasSent(axis) :
            /\ v \in (-kScrollGain) .. kScrollGain
            /\ Sign(v) = Sign(d.num)
            /\ Abs(v) >= 1

\* C10: for every delta d in [-1, 1] the device delta sent is
\* sign(d) * ceil(4 * |d|): an integer in [-4, 4] with the sign of d and a
\* magnitude of at least 1 when d is not 0; nothing is sent for d = 0.
C10_Quantization ==
  ScrollDone =>
    /\ QuantizedAxis(REL_HWHEEL, call.x)
    /\ QuantizedAxis(REL_WHEEL, call.y)

\* The smallest positive horizontal delta alone: one event of value +1.
C10_Witness ==
  /\ ScrollDone
  /\ call.x = Float(1) /\ call.y = Float(0)
  /\ Sent(call.touchpad_id) = <<SendRel(REL_HWHEEL, 1), SendSynReport>>

\* ----------------------------------------------------------------------- C11
\* C11: for x, y in [0, 1) the device coordinates Touch computes are
\* floor(x * 65536), floor(y * 65536), and every position update sent to an
\* injector has both coordinates within [0, 65535].
C11_DeviceRange ==
  /\ (call.op = "Touch" /\ ValidArgs
       /\ touchpad_[call.touchpad_id].injector # nullptr)
      => /\ InCell(touchpad_[call.touchpad_id].last_device_x, call.x)
         /\ InCell(touchpad_[call.touchpad_id].last_device_y, call.y)
  /\ \A i \in Ids :
       \A k \in 1 .. Len(injcalls[i]) :
         injcalls[i][k].f = "SendMultiTouchXY"
           => /\ injcalls[i][k].x \in 0 .. (kWidth - 1)
              /\ injcalls[i][k].y \in 0 .. (kHeight - 1)

\* ----------------------------------------------------------------------- C12
\* The last operation had an argument outside its range: an index outside
\* [0, kTouchpads - 1], a Touch coordinate that is not in [0, 1), or a Scroll
\* delta that is not in [-1, 1].
OutOfRange ==
  /\ IsEventOp
  /\ \/ call.touchpad_id \notin Ids
     \/ call.op = "Touch"
          /\ (~InUnitRange(call.x) \/ ~InUnitRange(call.y))
     \/ call.op = "Scroll"
          /\ (~InScrollRange(call.x) \/ ~InScrollRange(call.y))

\* C12: an event operation with an argument outside its range returns
\* invalid-argument and calls no injector method, attached or not.
C12_FailFast == OutOfRange => (ret = EINVAL /\ injcalls = NoCalls)

\* ----------------------------------------------------------------------- C13
\* A touchpad in its initial state: no injector, position unset, history 0,
\* mask 0.
Cleared(tp) ==
  /\ tp.injector = nullptr
  /\ tp.last_device_x = INT32_MIN /\ tp.last_device_y = INT32_MIN
  /\ tp.touches = 0
  /\ tp.last_motion_event_buttons = {}

\* C13: Detach always succeeds, closes the injector of every touchpad that
\* has one and of no other, and leaves every touchpad cleared; the state
\* after creation (Reset) is the same.
C13_DetachClears ==
  /\ [](call.op \in {"Create", "Detach"}
          => (ret = OK /\ \A i \in Ids : Cleared(touchpad_[i])))
  /\ [][call'.op = "Detach"
          => \A i \in Ids :
               injcalls'[i] = IF touchpad_[i].injector # nullptr
                              THEN <<Close>> ELSE <<>>]_vars

\* Detach closed the injectors of both touchpads and cleared them.
C13_Witness ==
  /\ call.op = "Detach" /\ ret = OK
  /\ \A i \in Ids : injcalls[i] = <<Close>>
  /\ \A i \in Ids : Cleared(touchpad_[i])

\* ----------------------------------------------------------------------- C14
\* The position updates among the injector calls cs, as <<x, y>> pairs.
PositionsOf(cs) ==
  LET ps == SelectSeq(cs, LAMBDA c : c.f = "SendMultiTouchXY")
  IN [k \in 1 .. Len(ps) |-> <<ps[k].x, ps[k].y>>]

LastPosition(tp) == <<tp.last_device_x, tp.last_device_y>>
Unset == <<INT32_MIN, INT32_MIN>>

\* C14 as stated: last_device_x/y are the coordinates of the most recent
\* position update sent since the last Reset, or unset: they start unset,
\* take the coordinates of each position update sent, are unset by
\* Reset/Detach and do not change otherwise.
C14_LastIsLastSent ==
  /\ [](call.op = "Create"
          => \A i \in Ids : LastPosition(touchpad_[i]) = Unset)
  /\ [][\A i \in Ids :
          LET ps == PositionsOf(injcalls'[i]) IN
          LastPosition(touchpad_'[i])
            = IF ps # <<>> THEN ps[Len(ps)]
              ELSE IF call'.op = "Detach" THEN Unset
              ELSE LastPosition(touchpad_[i])]_vars

\* C14 (amended): last_device_x/y are the device coordinates of the most
\* recent Touch that reached the touchpad's injector (in-range coordinates,
\* injector attached) since the last Reset/Detach, whether or not that Touch
\* sent a position update, or unset if there was none.
C14_LastIsLastTouch ==
  /\ [](call.op = "Create"
          => \A i \in Ids : LastPosition(touchpad_[i]) = Unset)
  /\ [][\A i \in Ids :
          IF TouchStep(i)
          THEN /\ InCell(touchpad_'[i].last_device_x, call'.x)
               /\ InCell(touchpad_'[i].last_device_y, call'.y)
          ELSE LastPosition(touchpad_'[i])
                 = IF call'.op = "Detach" THEN Unset
                   ELSE LastPosition(touchpad_[i])]_vars

\* A contact ended at the far end of the x axis: no position update was
\* sent, yet the last position is that of the call.
C14_Witness ==
  /\ call.op = "Touch" /\ ValidArgs
  /\ call.x = Float(CoordDen - 1)
  /\ touchpad_[call.touchpad_id].touches = 2
  /\ PositionsOf(injcalls[call.touchpad_id]) = <<>>
  /\ Sent(call.touchpad_id) # <<>>
  /\ touchpad_[call.touchpad_id].last_device_x = kWidth - 1

\* ----------------------------------------------------------------------- C15
ConfigureNames ==
  {"ConfigureBegin", "ConfigureInputProperty", "ConfigureMultiTouchXY",
   "ConfigureAbsSlots", "ConfigureKey", "ConfigureEnd", "GetError"}

\* C15: Attach keeps the injector of a touchpad that has one (owned or
\* externally supplied), with the state it holds, and only configures it; it
\* creates a new owned injector only for a touchpad that has none; after
\* Attach every touchpad has an injector.
C15_AttachKeepsInjector ==
  [][call'.op = "Attach"
       => \A i \in Ids :
            /\ touchpad_[i].injector # nullptr
                 => /\ touchpad_'[i].injector = touchpad_[i].injector
                    /\ device'[i] = device[i]
            /\ touchpad_[i].injector = nullptr
                 => /\ touchpad_'[i].injector = owned
                    /\ device'[i] = NewDevice
            /\ touchpad_'[i].injector # nullptr
            /\ \A k \in 1 .. Len(injcalls'[i]) :
                 injcalls'[i][k].f \in ConfigureNames]_vars

\* Attach found an external injector holding a pressed key on touchpad 0 and
\* none on touchpad 1: it kept the first and created the second.
C15_Witness ==
  /\ call.op = "Attach"
  /\ touchpad_[0].injector = external /\ device[0].btn_touch
  /\ touchpad_[1].injector = owned

\* ----------------------------------------------------------------------- C16
\* What the injector of touchpad i reported after its configuration.
ConfigurationStatus(i) == injcalls[i][Len(injcalls[i])].returns

\* C16: Attach runs the whole configuration on every touchpad, and returns
\* the status of the highest-indexed touchpad whose injector reports an
\* error, or success if none does.
C16_AttachStatus ==
  call.op = "Attach" =>
    /\ \A i \in Ids :
         /\ Len(injcalls[i]) = 8
         /\ injcalls[i][1].f = "ConfigureBegin"
         /\ injcalls[i][7].f = "ConfigureEnd"
         /\ injcalls[i][8].f = "GetError"
    /\ LET failed == {i \in Ids : ConfigurationStatus(i) # OK} IN
       ret = IF failed = {} THEN OK
             ELSE ConfigurationStatus(
                    CHOOSE i \in failed : \A j \in failed : j <= i)

\* Both injectors failed with different errors: the later one is returned.
C16_Witness ==
  /\ call.op = "Attach"
  /\ ConfigurationStatus(0) = EBADF
  /\ ConfigurationStatus(1) = EIO
  /\ ret = EIO

\* ----------------------------------------------------------------------- C17
\* C17: after every Touch with coordinates in [0, 1) on a touchpad that has
\* an injector, whatever the contact history, the touchpad's last position
\* is the device position of that call; hence a Touch without contact at the
\* coordinates of the release just before it sends nothing.
C17_PositionAlwaysUpdated ==
  [][\A i \in Ids :
       TouchStep(i)
         => /\ InCell(touchpad_'[i].last_device_x, call'.x)
            /\ InCell(touchpad_'[i].last_device_y, call'.y)
            /\ ( /\ call.op = "Touch" /\ call.touchpad_id = i
                 /\ touchpad_[i].touches = 2
                 /\ call'.x = call.x /\ call'.y = call.y
                 /\ ~Contact(call'.pressure) )
                 => Events(injcalls'[i]) = <<>>]_vars

\* A contact ended at the far end of the y axis: only the release and the
\* lift were sent, and the last position is that of the call.
C17_Witness ==
  /\ call.op = "Touch" /\ ValidArgs
  /\ call.x = Float(0) /\ call.y = Float(CoordDen - 1)
  /\ touchpad_[call.touchpad_id].touches = 2
  /\ Sent(call.touchpad_id) = TouchEnds(0, kHeight - 1)
  /\ touchpad_[call.touchpad_id].last_device_x = 0
  /\ touchpad_[call.touchpad_id].last_device_y = kHeight - 1

\* ----------------------------------------------------------------------- C18
\* This step is a Touch on touchpad i with coordinates in [0, 1), with or
\* without an injector.
ValidatedTouchStep(i) ==
  /\ call'.op = "Touch" /\ call'.touchpad_id = i
  /\ InUnitRange(call'.x) /\ InUnitRange(call'.y)

\* C18: touches is always in 0 .. 3; a Touch that passes validation sets
\* bit 0 to (pressure > 0) and bit 1 to the former bit 0, which is the
\* contact bit of the validated Touch before it (0 after Reset/Detach);
\* Detach sets it to 0 and no other operation changes it.
C18_ContactHistory ==
  /\ [](\A i \in Ids : touchpad_[i].touches \in 0 .. 3)
  /\ [][\A i \in Ids :
          IF ValidatedTouchStep(i)
          THEN /\ touchpad_'[i].touches % 2
                   = (IF Contact(call'.pressure) THEN 1 ELSE 0)
               /\ touchpad_'[i].touches \div 2 = touchpad_[i].touches % 2
          ELSE touchpad_'[i].touches
                 = IF call'.op = "Detach" THEN 0 ELSE touchpad_[i].touches]_vars

\* Two Touches with contact in a row on a touchpad without an injector:
\* both samples are recorded.
C18_Witness ==
  /\ call.op = "Touch" /\ ValidArgs /\ Contact(call.pressure)
  /\ ret = ERROR_SEQUENCING
  /\ touchpad_[call.touchpad_id].touches = 3

\* ----------------------------------------------------------------------- C19
\* C19: what a Touch, ButtonState or Scroll sends to an injector is either
\* nothing or one or more position/key/lift/relative events followed by
\* exactly one synchronization barrier, which is the last primitive.
C19_BarrierWellFormed ==
  IsEventOp =>
    \A i \in Ids :
      LET es == Sent(i) IN
      \/ es = <<>>
      \/ /\ Len(es) >= 2
         /\ es[Len(es)] = SendSynReport
         /\ \A k \in 1 .. (Len(es) - 1) :
              es[k].f \in {"SendMultiTouchXY", "SendKey",
                           "SendMultiTouchLift", "SendRel"}

\* The end of a contact: a key release and a lift, then the barrier.
C19_Witness ==
  /\ call.op = "Touch" /\ ValidArgs
  /\ Sent(call.touchpad_id)
       = <<SendKey(BTN_TOUCH, KEY_RELEASE), SendMultiTouchLift(0),
           SendSynReport>>

\* ----------------------------------------------------------------------- C20
\* C20: a Touch, ButtonState or Scroll that returns invalid-argument,
\* not-supported or sequencing-error leaves every touchpad as it was.
C20_ErrorKeepsState ==
  [][(/\ call'.op \in {"Touch", "ButtonState", "Scroll"}
      /\ ret' \in {EINVAL, ENOTSUP, ERROR_SEQUENCING})
       => touchpad_' = touchpad_]_vars
====
